---- MODULE Spec2Model ----
\* Branch-and-bound plan search of query-planner-js/src/generateAllPlans.ts:
\* generateAllPlansAndFindBest with its helpers insertInStack, pickNext and
\* extract.  One action is one iteration of the `while (stack.length > 0)`
\* loop (split by the branch the iteration takes), plus the code after the loop.
EXTENDS Integers, Sequences, FiniteSets, TLC

\* ---------------------------------------------------------------- bounds
MaxPieces == 3
MaxChoices == 3
MaxSlots == 4
MaxWeight == 1

\* toAdd, weight: the arguments toAdd and costFct; stack, min: the locals of
\* generateAllPlansAndFindBest; heap: the choice-set arrays, a work item
\* holding references to them; pc, error: where the call is and what it threw;
\* onPlanCalls: the calls of onPlan; log: the loop iterations so far;
\* call: the arguments and the result of a direct call of extract
VARIABLES toAdd, weight, stack, heap, min, pc, error, onPlanCalls, log, call

vars == <<toAdd, weight, stack, heap, min, pc, error, onPlanCalls, log, call>>

\* ------------------------------------------------------- optional values
\* `undefined` and a defined value v, for `index?: number`, `T | undefined`
\* slots, `min` and the third argument of onPlan.
undefined == << >>
Some(v) == <<v>>
Get(o) == o[1]

\* ------------------------------------------------------------ the inputs
RECURSIVE SumSeq(_)
SumSeq(s) == IF s = << >> THEN 0 ELSE s[1] + SumSeq(Tail(s))

\* toAdd: E[][] -- every slot of every choice set holds a candidate; the
\* candidate in slot j (0-based) of a piece is identified by j.
ChoiceSetOf(n) == [j \in 1..n |-> Some(j - 1)]

Shapes ==
  { s \in UNION { [1..n -> 0..MaxChoices] : n \in 0..MaxPieces } :
      SumSeq(s) <= MaxSlots }

ChoiceLists == { [i \in 1..Len(s) |-> ChoiceSetOf(s[i])] : s \in Shapes }

SlotsOf(list) ==
  UNION { { <<i, j>> : j \in 1..Len(list[i]) } : i \in 1..Len(list) }

Weights == (0 - 1)..MaxWeight

\* initial: P -- the plan is the sequence of candidates added so far
initial == << >>

\* addFct: (p: P, e: E) => P
addFct(p, e) == Append(p, e)

\* costFct: (p: P) => number -- one of the additive cost functions, the
\* candidate in slot j of piece i contributing weight[<<i, j + 1>>]; a
\* negative contribution makes the function non-monotonic.
RECURSIVE CostUpTo(_, _)
CostUpTo(p, k) ==
  IF k = 0 THEN 0 ELSE CostUpTo(p, k - 1) + weight[<<k, p[k] + 1>>]

costFct(p) == CostUpTo(p, Len(p))

\* the number of plans the loop can build from a choice list: one iteration
\* extracts one candidate for one partial plan
RECURSIVE PlanCount(_)
PlanCount(list) ==
  IF list = << >> THEN 0 ELSE Len(list[1]) * (1 + PlanCount(Tail(list)))

\* cap on loop iterations; larger than any run of the search on toAdd
MaxPops == PlanCount(toAdd) + 1

\* ------------------------------------------------------------ insertInStack
\* insertInStack pushing every item, whatever its index
insertInStackPush(elt, stk) == Append(stk, elt)

\* the stack is a sequence whose last element is the one pop() returns
insertInStack(elt, stk) ==
  IF elt.index # undefined THEN Append(stk, elt) ELSE <<elt>> \o stk

\* ------------------------------------------------------------ pickNext
\* the for loop of pickNext: first populated slot at or after i (0-based),
\* or Len(remaining) if there is none
RECURSIVE scanFrom(_, _)
scanFrom(i, remaining) ==
  IF i >= Len(remaining) THEN Len(remaining)
  ELSE IF remaining[i + 1] # undefined THEN i
  ELSE scanFrom(i + 1, remaining)

\* pickNext without the assert after the scan: falls through to slot 0
pickNextNoAssert(index, remaining) ==
  IF index = undefined \/ Get(index) >= Len(remaining)
  THEN IF scanFrom(0, remaining) < Len(remaining)
       THEN [ok |-> TRUE, index |-> scanFrom(0, remaining), error |-> ""]
       ELSE [ok |-> TRUE, index |-> 0, error |-> ""]
  ELSE IF remaining[Get(index) + 1] # undefined
       THEN [ok |-> TRUE, index |-> Get(index), error |-> ""]
       ELSE [ok |-> FALSE, index |-> 0, error |-> "Invalid index"]

\* pickNext ignoring the preferred index: always the first populated slot
pickNextScanOnly(index, remaining) ==
  IF scanFrom(0, remaining) < Len(remaining)
  THEN [ok |-> TRUE, index |-> scanFrom(0, remaining), error |-> ""]
  ELSE [ok |-> FALSE, index |-> 0,
        error |-> "Passed a \"remaining\" with all undefined"]

pickNext(index, remaining) ==
  IF index = undefined \/ Get(index) >= Len(remaining)
  THEN IF scanFrom(0, remaining) < Len(remaining)
       THEN [ok |-> TRUE, index |-> scanFrom(0, remaining), error |-> ""]
       ELSE [ok |-> FALSE, index |-> 0,
             error |-> "Passed a \"remaining\" with all undefined"]
  ELSE IF remaining[Get(index) + 1] # undefined
       THEN [ok |-> TRUE, index |-> Get(index), error |-> ""]
       ELSE [ok |-> FALSE, index |-> 0, error |-> "Invalid index"]

\* ------------------------------------------------------------ extract
\* extract leaving the extracted slot populated
extractKeepsSlot(index, choices) ==
  IF index >= Len(choices) \/ choices[index + 1] = undefined
  THEN [ok |-> FALSE, extracted |-> 0, isLast |-> TRUE,
        updatedChoices |-> choices, error |-> "Index of choices is undefined"]
  ELSE [ok |-> TRUE,
        extracted |-> Get(choices[index + 1]),
        isLast |-> \A i \in 1..Len(choices) :
                      i # index + 1 => choices[i] = undefined,
        updatedChoices |-> choices,
        error |-> ""]

\* extract whose isLast loop does not skip the extracted slot
extractNeverLast(index, choices) ==
  IF index >= Len(choices) \/ choices[index + 1] = undefined
  THEN [ok |-> FALSE, extracted |-> 0, isLast |-> TRUE,
        updatedChoices |-> choices, error |-> "Index of choices is undefined"]
  ELSE [ok |-> TRUE,
        extracted |-> Get(choices[index + 1]),
        isLast |-> \A i \in 1..Len(choices) : choices[i] = undefined,
        updatedChoices |-> [i \in 1..Len(choices) |->
                              IF i = index + 1 THEN undefined ELSE choices[i]],
        error |-> ""]

extract(index, choices) ==
  IF index >= Len(choices) \/ choices[index + 1] = undefined
  THEN [ok |-> FALSE, extracted |-> 0, isLast |-> TRUE,
        updatedChoices |-> choices, error |-> "Index of choices is undefined"]
  ELSE [ok |-> TRUE,
        extracted |-> Get(choices[index + 1]),
        isLast |-> \A i \in 1..Len(choices) :
                      i # index + 1 => choices[i] = undefined,
        updatedChoices |-> [i \in 1..Len(choices) |->
                              IF i = index + 1 THEN undefined ELSE choices[i]],
        error |-> ""]

\* ------------------------------------------------ the body of the loop
\* index of the sibling item (line 94)
\* sibling index without the increment
siblingIndexSame(isRoot, index, length) ==
  IF isRoot /\ index # undefined /\ Get(index) < length - 1
  THEN Some(Get(index)) ELSE undefined

siblingIndex(isRoot, index, length) ==
  IF isRoot /\ index # undefined /\ Get(index) < length - 1
  THEN Some(Get(index) + 1) ELSE undefined

\* isNewMin with the comparison reversed
isNewMinReversed(cost, m) ==
  IF m = undefined THEN TRUE ELSE cost > Get(m).cost

\* isNewMin with <= for <
isNewMinOrEqual(cost, m) ==
  IF m = undefined THEN TRUE ELSE cost <= Get(m).cost

\* isNewMin that keeps the latest plan
isNewMinAlways(cost, m) == TRUE

\* isNewMin without the `min === undefined` case
isNewMinNoFirst(cost, m) ==
  IF m = undefined THEN FALSE ELSE cost < Get(m).cost

\* const isNewMin = min === undefined || cost < min.cost
isNewMin(cost, m) == m = undefined \/ cost < Get(m).cost

\* cut that compares against one less than the best cost
cutEager(cost, m) == m # undefined /\ cost >= Get(m).cost - 1

\* cut with > for >=
cutStrict(cost, m) == m # undefined /\ cost > Get(m).cost

\* the pruning cut: if (min !== undefined) { if (cost >= min.cost) continue }
cut(cost, m) == m # undefined /\ cost >= Get(m).cost

\* min?.cost
minCost(m) == IF m = undefined THEN undefined ELSE Some(Get(m).cost)

\* stack.pop()
top == stack[Len(stack)]
popped == SubSeq(stack, 1, Len(stack) - 1)

\* remaining[0], through the reference the item holds
nextChoices == heap[top.remaining[1]]
otherChoices == Tail(top.remaining)
pickedIndex == pickNext(top.index, nextChoices)
extraction == extract(pickedIndex.index, nextChoices)

\* extract clearing the slot in `choices` itself before copying it
allocateInPlace(h, ref, updatedChoices) ==
  Append([h EXCEPT ![ref] = updatedChoices], updatedChoices)

\* extract builds updatedChoices in a new array and leaves `choices` alone
allocate(h, ref, updatedChoices) == Append(h, updatedChoices)

\* the reference to updatedChoices
updatedRef == Len(heap) + 1

\* the sibling item keeping only the choice set it was extracted from
siblingDropsRest ==
  [partial |-> top.partial,
   remaining |-> <<updatedRef>>,
   isRoot |-> top.isRoot,
   index |-> siblingIndex(top.isRoot, top.index, Len(nextChoices))]

sibling ==
  [partial |-> top.partial,
   remaining |-> <<updatedRef>> \o otherChoices,
   isRoot |-> top.isRoot,
   index |-> siblingIndex(top.isRoot, top.index, Len(nextChoices))]

\* the stack after lines 88-96 if the sibling were never queued
afterSiblingDropped == popped

\* the stack after lines 88-96
afterSibling ==
  IF ~extraction.isLast THEN insertInStack(sibling, popped) ELSE popped

newPartial == addFct(top.partial, extraction.extracted)

\* the continuation item staying in the diagonal phase of the popped item
continuationKeepsRoot ==
  [partial |-> newPartial, remaining |-> otherChoices,
   isRoot |-> top.isRoot, index |-> top.index]

continuation ==
  [partial |-> newPartial, remaining |-> otherChoices,
   isRoot |-> FALSE, index |-> top.index]

\* one record of the run per loop iteration
LogEntry(outcome) ==
  [item |-> top,
   picked |-> pickedIndex.index,
   sibling |-> IF ~extraction.isLast THEN Some(sibling) ELSE undefined,
   newPartial |-> newPartial,
   minBefore |-> min,
   compared |-> otherChoices # << >> /\ min # undefined,
   calls |-> Len(onPlanCalls),
   outcome |-> outcome]

\* ------------------------------------------------------------------ Init
\* lines 71-78, for the arguments toAdd and costFct as they are
Started ==
  /\ heap = toAdd
  /\ stack = << [partial |-> initial,
                 remaining |-> [i \in 1..Len(toAdd) |-> i],
                 isRoot |-> TRUE, index |-> Some(0)] >>
  /\ min = undefined
  /\ pc = "loop"
  /\ error = ""
  /\ onPlanCalls = << >>
  /\ log = << >>
  /\ call = undefined

Init ==
  /\ toAdd \in ChoiceLists
  /\ weight \in [SlotsOf(toAdd) -> Weights]
  /\ Started

\* while (stack.length > 0)
Looping == pc = "loop" /\ stack # << >> /\ Len(log) < MaxPops

\* toAdd is []: remaining[0] is undefined and pickNext reads its length
PopTypeError ==
  /\ Looping
  /\ top.remaining = << >>
  /\ stack' = popped
  /\ pc' = "typeError"
  /\ error' = "TypeError: Cannot read properties of undefined"
  /\ UNCHANGED <<toAdd, weight, heap, min, onPlanCalls, log, call>>

\* an assert of pickNext or extract fails
PopAssert ==
  /\ Looping
  /\ top.remaining # << >>
  /\ ~(pickedIndex.ok /\ extraction.ok)
  /\ stack' = popped
  /\ pc' = "assertFailed"
  /\ error' = IF ~pickedIndex.ok THEN pickedIndex.error ELSE extraction.error
  /\ UNCHANGED <<toAdd, weight, heap, min, onPlanCalls, log, call>>

Extracted ==
  /\ Looping
  /\ top.remaining # << >>
  /\ pickedIndex.ok
  /\ extraction.ok

\* lines 99-112: a complete plan
PopComplete ==
  /\ Extracted
  /\ otherChoices = << >>
  /\ onPlanCalls' = Append(onPlanCalls,
        [plan |-> newPartial, cost |-> costFct(newPartial),
         previousCost |-> minCost(min)])
  /\ min' = IF isNewMin(costFct(newPartial), min)
            THEN Some([best |-> newPartial, cost |-> costFct(newPartial)])
            ELSE min
  /\ stack' = afterSibling
  /\ heap' = allocate(heap, top.remaining[1], extraction.updatedChoices)
  /\ log' = Append(log, LogEntry("complete"))
  /\ UNCHANGED <<toAdd, weight, pc, error, call>>

\* lines 114-122: the branch is skipped
PopPrune ==
  /\ Extracted
  /\ otherChoices # << >>
  /\ cut(costFct(newPartial), min)
  /\ stack' = afterSibling
  /\ heap' = allocate(heap, top.remaining[1], extraction.updatedChoices)
  /\ log' = Append(log, LogEntry("pruned"))
  /\ UNCHANGED <<toAdd, weight, min, pc, error, onPlanCalls, call>>

\* lines 124-129: the continuation is inserted
PopContinue ==
  /\ Extracted
  /\ otherChoices # << >>
  /\ ~cut(costFct(newPartial), min)
  /\ stack' = insertInStack(continuation, afterSibling)
  /\ heap' = allocate(heap, top.remaining[1], extraction.updatedChoices)
  /\ log' = Append(log, LogEntry("continued"))
  /\ UNCHANGED <<toAdd, weight, min, pc, error, onPlanCalls, call>>

\* lines 132-133: assert(min, ...); return min
Return ==
  /\ pc = "loop"
  /\ stack = << >>
  /\ pc' = IF min = undefined THEN "assertFailed" ELSE "done"
  /\ error' = IF min = undefined THEN "A plan should have been found" ELSE ""
  /\ UNCHANGED <<toAdd, weight, stack, heap, min, onPlanCalls, log, call>>

Next ==
  \/ PopTypeError
  \/ PopAssert
  \/ PopComplete
  \/ PopPrune
  \/ PopContinue
  \/ Return

Spec == Init /\ [][Next]_vars

\* every choice set of toAdd has at least one candidate
NonEmptySets ==
  \A i \in 1..Len(toAdd) : \E j \in 1..Len(toAdd[i]) : toAdd[i][j] # undefined

\* the lowest, the neutral and the highest contribution of a candidate
ExtremeWeights == {0 - 1, 0, MaxWeight}

\* the search called with choice sets that all have a candidate, and a cost
\* function built from the extreme contributions
InitNonEmptySets ==
  /\ Init
  /\ NonEmptySets
  /\ \A slot \in DOMAIN weight : weight[slot] \in ExtremeWeights

\* the steps of such a search: an iteration that leaves the loop by a failed
\* assert is not among them, so it would leave the search stuck in the loop
NextNonEmptySets ==
  \/ PopTypeError
  \/ PopComplete
  \/ PopPrune
  \/ PopContinue
  \/ Return

\* the loop runs without suspension point: some step is always taken
FairSpec ==
  InitNonEmptySets /\ [][NextNonEmptySets]_vars /\ WF_vars(NextNonEmptySets)

\* the cap on iterations is never what stops the loop
CapNotReached == Len(log) < MaxPops

\* ------------------------------------------------------------ a scenario
\* three pieces: a1 and a2, b1 and b2, c1, with their cost contributions
ScenarioContributions == << <<1, 5>>, <<2, 1>>, <<0>> >>

Scenario ==
  [i \in 1..Len(ScenarioContributions) |->
     ChoiceSetOf(Len(ScenarioContributions[i]))]

ScenarioCosts ==
  { ScenarioContributions[slot[1]][slot[2]] : slot \in SlotsOf(Scenario) }

\* the search called with the choice list of the scenario and an additive
\* cost function that gives each candidate one of the scenario's contributions
InitScenario ==
  /\ toAdd = Scenario
  /\ weight \in [SlotsOf(toAdd) -> ScenarioCosts]
  /\ Started

\* the steps of a search whose choice sets all have a candidate
NextScenario ==
  \/ PopComplete
  \/ PopPrune
  \/ PopContinue
  \/ Return

SpecScenario == InitScenario /\ [][NextScenario]_vars

\* ------------------------------------------------------------ a wide list
\* three pieces of three candidates each, then a piece of one candidate
WideShape == <<3, 3, 3, 1>>

WideChoices == [i \in 1..Len(WideShape) |-> ChoiceSetOf(WideShape[i])]

WideCosts == {0, 1}

\* the search called with the wide choice list and an additive cost function
\* of non-negative contributions
InitWide ==
  /\ toAdd = WideChoices
  /\ weight \in [SlotsOf(toAdd) -> WideCosts]
  /\ Started

SpecWide == InitWide /\ [][NextScenario]_vars

\* ------------------------------------------------------------ extract alone
\* the candidates a choice set can hold
Candidates == 0..1

\* the choice sets of up to MaxChoices slots, populated or not
ChoiceSets ==
  UNION { [1..n -> {undefined} \cup { Some(e) : e \in Candidates }] :
            n \in 0..MaxChoices }

\* a call extract(index, choices) about to be made, with any index up to one
\* past the last slot
InitExtract ==
  /\ call \in { Some([index |-> i, choices |-> c, returned |-> undefined]) :
                  i \in 0..MaxChoices, c \in ChoiceSets }
  /\ pc = "extract"
  /\ error = ""
  /\ toAdd = << >>
  /\ weight = << >>
  /\ stack = << >>
  /\ heap = << >>
  /\ min = undefined
  /\ onPlanCalls = << >>
  /\ log = << >>

\* extract(index, choices) throws or returns
CallExtract ==
  /\ pc = "extract"
  /\ LET result == extract(Get(call).index, Get(call).choices)
     IN  IF result.ok
         THEN /\ pc' = "returned"
              /\ error' = error
              /\ call' = Some([Get(call) EXCEPT !.returned =
                                 Some([extracted |-> result.extracted,
                                       isLast |-> result.isLast,
                                       updatedChoices |->
                                          result.updatedChoices])])
         ELSE /\ pc' = "assertFailed"
              /\ error' = result.error
              /\ call' = call
  /\ UNCHANGED <<toAdd, weight, stack, heap, min, onPlanCalls, log>>

SpecExtract == InitExtract /\ [][CallExtract]_vars

\* =================================================================
\* Properties
\* =================================================================

HasEmptySet == ~NonEmptySets

\* the plans that pick one candidate in each of the first k pieces
PlansOfLength(k) ==
  { p \in [1..k -> 0..(MaxChoices - 1)] :
      \A i \in 1..k : p[i] < Len(toAdd[i]) }

\* the cartesian product of toAdd
CompletePlans == PlansOfLength(Len(toAdd))

\* cost(combine(P, E)) >= cost(P) for every plan P and candidate E
Monotonic ==
  \A k \in 1..Len(toAdd) : \A p \in PlansOfLength(k) :
     costFct(p) >= costFct(SubSeq(p, 1, k - 1))

IsPrefix(p, q) == Len(p) <= Len(q) /\ SubSeq(q, 1, Len(p)) = p

MinOfSet(S) == CHOOSE x \in S : \A y \in S : x <= y

\* the search has returned the minimum-cost complete plan and its cost
ReturnsOptimum ==
  /\ pc = "done"
  /\ min # undefined
  /\ Get(min).best \in CompletePlans
  /\ Get(min).cost = costFct(Get(min).best)
  /\ \A q \in CompletePlans : Get(min).cost <= costFct(q)

\* C1 as stated: for every choice list whose choice sets all have a candidate
\* and every monotonic cost function, the search returns a complete plan of
\* minimum cost over the cartesian product, with that plan's cost.
C1_AnyChoiceList ==
  (NonEmptySets /\ Monotonic /\ pc # "loop") => ReturnsOptimum

\* C1 amended: for every choice list of at least one piece whose choice sets
\* all have a candidate, and every monotonic cost function, the search returns
\* a complete plan of minimum cost over the cartesian product, with its cost.
C1_ReturnsMinimum ==
  (Len(toAdd) >= 1 /\ NonEmptySets /\ Monotonic /\ pc # "loop")
     => ReturnsOptimum

\* a finished search over several pieces that pruned a branch and whose best
\* plan is not the first one found
C1_Witness ==
  /\ pc = "done"
  /\ Len(toAdd) >= 2
  /\ Monotonic
  /\ \E k \in 1..Len(log) : log[k].outcome = "pruned"
  /\ Get(min).best # onPlanCalls[1].plan

\* C2: with an empty choice set anywhere in toAdd the search ends in the
\* assertion of pickNext and never returns; until then no plan is completed,
\* no best is recorded and no branch is pruned.
C2_EmptyChoiceSetIsFatal ==
  HasEmptySet =>
    /\ pc # "done"
    /\ min = undefined
    /\ onPlanCalls = << >>
    /\ \A k \in 1..Len(log) : log[k].outcome = "continued"
    /\ pc # "loop" =>
         /\ pc = "assertFailed"
         /\ error = "Passed a \"remaining\" with all undefined"

\* the assertion was raised at an empty last piece, with a sibling of the
\* first piece still waiting on the stack
C2_Witness ==
  /\ pc = "assertFailed"
  /\ Len(toAdd) = MaxPieces
  /\ Len(toAdd[Len(toAdd)]) = 0
  /\ Len(toAdd[1]) >= 2
  /\ stack # << >>

\* C3: for every choice list whose choice sets are all non-empty the loop
\* is left after finitely many iterations, with the stack empty, whatever
\* the cost function.
C3_Terminates ==
  NonEmptySets => <>(stack = << >> /\ pc # "loop")

\* a search with a non-monotonic cost function that ended after many pops
C3_Witness ==
  /\ pc = "done"
  /\ NonEmptySets
  /\ ~Monotonic
  /\ stack = << >>
  /\ Len(log) >= 2 * MaxPieces

\* C4: when the loop exits on an empty stack a best result is recorded, so
\* the final assertion never fails; a list with an empty choice set fails in
\* pickNext instead.
C4_PlanFound ==
  /\ (pc = "loop" /\ stack = << >>) => min # undefined
  /\ error # "A plan should have been found"
  /\ (HasEmptySet /\ pc = "assertFailed")
        => error = "Passed a \"remaining\" with all undefined"

\* the loop has just exited on an empty stack, after more than one plan
C4_Witness ==
  /\ pc = "loop"
  /\ stack = << >>
  /\ Len(toAdd) >= 2
  /\ Len(onPlanCalls) >= 2

\* the iterations of the run that produced a complete plan
CompleteIterations ==
  { k \in 1..Len(log) : Len(log[k].newPartial) = Len(toAdd) }

\* C5: onPlan is called once per complete plan generated, in order, with the
\* plan's cost and the best cost before it: absent on the first call only,
\* the minimum of the costs of all earlier calls afterwards.
C5_ObserverCalls ==
  /\ Len(onPlanCalls) = Cardinality(CompleteIterations)
  /\ \A k \in CompleteIterations :
        /\ log[k].calls + 1 <= Len(onPlanCalls)
        /\ onPlanCalls[log[k].calls + 1].plan = log[k].newPartial
        /\ \A k2 \in CompleteIterations :
              k2 # k => log[k2].calls # log[k].calls
  /\ \A i \in 1..Len(onPlanCalls) :
        /\ onPlanCalls[i].cost = costFct(onPlanCalls[i].plan)
        /\ onPlanCalls[i].previousCost =
             IF i = 1 THEN undefined
             ELSE Some(MinOfSet({ onPlanCalls[j].cost : j \in 1..(i - 1) }))

\* a third call whose previous best cost is not the cost of the second call
C5_Witness ==
  /\ Len(onPlanCalls) >= 3
  /\ onPlanCalls[3].previousCost # Some(onPlanCalls[2].cost)
  /\ onPlanCalls[3].previousCost # Some(onPlanCalls[3].cost)

\* C6: min is absent exactly until the first complete plan; once set it is
\* never removed, and every replacement has a strictly lower cost.
C6_BestImproves ==
  [][ /\ (min = undefined) <=> (onPlanCalls = << >>)
      /\ (min' = undefined) <=> (onPlanCalls' = << >>)
      /\ min # undefined =>
           /\ min' # undefined
           /\ min' # min => Get(min').cost < Get(min).cost ]_vars

\* the best result has been replaced at least twice
C6_Witness ==
  Cardinality({ i \in 1..Len(onPlanCalls) :
                  /\ onPlanCalls[i].previousCost # undefined
                  /\ onPlanCalls[i].cost < Get(onPlanCalls[i].previousCost) }) >= 2

\* the iterations that built an incomplete plan costing at least the best
\* cost known at that time
CutIterations ==
  { k \in 1..Len(log) :
      /\ Len(log[k].newPartial) < Len(toAdd)
      /\ log[k].minBefore # undefined
      /\ costFct(log[k].newPartial) >= Get(log[k].minBefore).cost }

\* C7: when an incomplete plan costs at least the best cost, no continuation
\* is pushed for it and onPlan is never called afterwards with a plan that
\* extends it.
C7_PrunedBranchNeverObserved ==
  \A k \in CutIterations :
     /\ \A n \in 1..Len(stack) : ~IsPrefix(log[k].newPartial, stack[n].partial)
     /\ \A k2 \in 1..Len(log) :
          k2 > k => ~IsPrefix(log[k].newPartial, log[k2].newPartial)
     /\ \A i \in 1..Len(onPlanCalls) :
          i > log[k].calls => ~IsPrefix(log[k].newPartial, onPlanCalls[i].plan)

\* a branch was cut at exactly the best cost and plans were observed later
C7_Witness ==
  /\ pc = "done"
  /\ \E k \in CutIterations :
        /\ costFct(log[k].newPartial) = Get(log[k].minBefore).cost
        /\ Len(onPlanCalls) > log[k].calls

\* the first call of onPlan that had the lowest cost of all calls so far
FirstOfMinimalCost ==
  LET m == MinOfSet({ onPlanCalls[i].cost : i \in 1..Len(onPlanCalls) })
  IN  MinOfSet({ i \in 1..Len(onPlanCalls) : onPlanCalls[i].cost = m })

\* C8: among the complete plans of minimal cost the recorded (and returned)
\* best is the one onPlan saw first; an equal-cost later plan never replaces it.
C8_FirstDiscoveredWins ==
  min # undefined =>
     /\ onPlanCalls # << >>
     /\ Get(min).best = onPlanCalls[FirstOfMinimalCost].plan

\* the search returned although a later plan had the same minimal cost
C8_Witness ==
  /\ pc = "done"
  /\ \E i, j \in 1..Len(onPlanCalls) :
        /\ i < j
        /\ onPlanCalls[i].cost = Get(min).cost
        /\ onPlanCalls[j].cost = Get(min).cost
        /\ Get(min).best = onPlanCalls[i].plan

\* C9: with exactly one piece of k >= 1 candidates, onPlan is called k
\* times, for slots 0..k-1 in that order, nothing is pruned, and the result
\* is the candidate of minimal cost.
C9_SinglePiece ==
  (Len(toAdd) = 1 /\ Len(toAdd[1]) >= 1) =>
     /\ \A i \in 1..Len(onPlanCalls) : onPlanCalls[i].plan = <<i - 1>>
     /\ \A k \in 1..Len(log) : log[k].outcome = "complete" /\ ~log[k].compared
     /\ pc # "loop" =>
          /\ pc = "done"
          /\ Len(onPlanCalls) = Len(toAdd[1])
          /\ \A j \in 0..(Len(toAdd[1]) - 1) :
                Get(min).cost <= costFct(addFct(initial, j))
          /\ Get(min).cost = costFct(Get(min).best)
          /\ Len(Get(min).best) = 1

\* a single piece with the most candidates, tried in full although the
\* first candidate was the cheapest
C9_Witness ==
  /\ pc = "done"
  /\ Len(toAdd) = 1
  /\ Len(toAdd[1]) = MaxChoices
  /\ Len(onPlanCalls) = MaxChoices
  /\ \A i \in 2..Len(onPlanCalls) : onPlanCalls[i].cost > onPlanCalls[1].cost

\* every piece offers exactly one candidate
AllSingletons == \A i \in 1..Len(toAdd) : Len(toAdd[i]) = 1

\* no sibling queued, at most one item stacked, no partial cost compared to
\* a best cost, and the unique complete plan returned after one onPlan call
NoPruningDecision ==
  /\ Len(stack) <= 1
  /\ \A k \in 1..Len(log) :
        /\ log[k].sibling = undefined
        /\ ~log[k].compared
        /\ log[k].outcome # "pruned"
  /\ Len(onPlanCalls) <= 1
  /\ pc # "loop" =>
       /\ pc = "done"
       /\ Len(onPlanCalls) = 1
       /\ min # undefined
       /\ Get(min).best = [i \in 1..Len(toAdd) |-> 0]
       /\ CompletePlans = {Get(min).best}

\* C10 as stated: when every piece offers exactly one candidate the search
\* returns the unique complete plan, without sibling, comparison or pruning,
\* after exactly one call of onPlan.
C10_AnySingletonList == AllSingletons => NoPruningDecision

\* C10 amended: when there is at least one piece and every piece offers
\* exactly one candidate, the search returns the unique complete plan, without
\* sibling, comparison or pruning, after exactly one call of onPlan.
C10_Singletons == (Len(toAdd) >= 1 /\ AllSingletons) => NoPruningDecision

\* the unique plan of the longest list of singletons was returned
C10_Witness ==
  /\ pc = "done"
  /\ Len(toAdd) = MaxPieces
  /\ AllSingletons
  /\ Len(log) = MaxPieces

\* ------------------------------------------------------------------- C11
\* the cost function is the one of the scenario
IsScenario ==
  /\ toAdd = Scenario
  /\ \A slot \in DOMAIN weight :
        weight[slot] = ScenarioContributions[slot[1]][slot[2]]

\* {a1, b2, c1}
ScenarioBest == <<0, 1, 0>>

\* C11 as stated: in the scenario the search returns the plan {a1, b2, c1}
\* with total cost 3.
C11_ScenarioCostThree ==
  (IsScenario /\ pc # "loop") =>
     /\ pc = "done"
     /\ Get(min).best = ScenarioBest
     /\ Get(min).cost = 3

\* C11 amended: in the scenario the search returns the plan {a1, b2, c1}
\* with total cost 2, the sum of the contributions 1, 1 and 0.
C11_ScenarioCostTwo ==
  (IsScenario /\ pc # "loop") =>
     /\ pc = "done"
     /\ Get(min).best = ScenarioBest
     /\ Get(min).cost = 2

\* the scenario has returned, after {a1, b1, c1} was observed first and the
\* branch of a2 was pruned
C11_Witness ==
  /\ IsScenario
  /\ pc = "done"
  /\ Len(onPlanCalls) = 2
  /\ onPlanCalls[1].plan = <<0, 0, 0>>
  /\ \E k \in 1..Len(log) :
        log[k].outcome = "pruned" /\ log[k].newPartial = <<1>>

\* ------------------------------------------------------------------- C12
Reverse(s) == [i \in 1..Len(s) |-> s[Len(s) + 1 - i]]

IsUnindexed(item) == item.index = undefined

\* no indexed item lies below an unindexed one
UnindexedBelowIndexed ==
  \A i \in 1..Len(stack) : \A j \in (i + 1)..Len(stack) :
     IsUnindexed(stack[j]) => IsUnindexed(stack[i])

\* the item iteration k of the loop put back as the continuation of its branch
ContinuationOf(entry) ==
  [partial |-> entry.newPartial, remaining |-> Tail(entry.item.remaining),
   isRoot |-> FALSE, index |-> entry.item.index]

\* the unindexed items iteration k inserted, in the order of the insertions
InsertedUnindexedAt(entry) ==
  (IF entry.sibling # undefined /\ IsUnindexed(Get(entry.sibling))
   THEN <<Get(entry.sibling)>> ELSE << >>)
  \o (IF entry.outcome = "continued" /\ IsUnindexed(entry.item)
      THEN <<ContinuationOf(entry)>> ELSE << >>)

\* the unindexed items the first k iterations inserted, oldest first
RECURSIVE InsertedUnindexed(_)
InsertedUnindexed(k) ==
  IF k = 0 THEN << >>
  ELSE InsertedUnindexed(k - 1) \o InsertedUnindexedAt(log[k])

\* the unindexed items popped so far, in the order of the pops
PoppedUnindexed ==
  LET entries == SelectSeq(log, LAMBDA entry : IsUnindexed(entry.item))
  IN  [i \in 1..Len(entries) |-> entries[i].item]

\* the unindexed items on the stack, the next one to be popped first
WaitingUnindexed == Reverse(SelectSeq(stack, IsUnindexed))

\* C12: in every reachable state the stack is a run of unindexed items at the
\* bottom followed by a run of indexed items at the top, so the item a pop
\* returns is unindexed only when no indexed item is on the stack; and the
\* unindexed items are popped in the order of their insertion: the ones
\* popped so far, followed by the ones waiting in the order they will be
\* popped, are the unindexed items inserted so far, oldest first.
C12_IndexedFirst ==
  /\ UnindexedBelowIndexed
  /\ \A k \in 1..Len(log) :
        IsUnindexed(log[k].item) =>
          \A l \in k..Len(log) : IsUnindexed(log[l].item)
  /\ pc = "loop" =>
        PoppedUnindexed \o WaitingUnindexed = InsertedUnindexed(Len(log))

\* two unindexed items were inserted while indexed ones were on the stack;
\* the older one has been popped and the younger one is waiting
C12_Witness ==
  /\ pc = "loop"
  /\ Len(PoppedUnindexed) = 1
  /\ Len(WaitingUnindexed) >= 1
  /\ InsertedUnindexedAt(log[Len(log)]) = << >>
  /\ \E k \in 1..Len(log) :
        /\ ~IsUnindexed(log[k].item)
        /\ log[k].sibling # undefined
        /\ IsUnindexed(Get(log[k].sibling))

\* ------------------------------------------------------------------- C13
\* the plan that takes slot i of every piece that has more than i slots and
\* slot 0 of the others
Diagonal(i) ==
  [j \in 1..Len(toAdd) |-> IF i < Len(toAdd[j]) THEN i ELSE 0]

\* the iterations that popped a fallback-scan (unindexed) item
ScanIterations == { k \in 1..Len(log) : IsUnindexed(log[k].item) }

\* iteration k ended a same-index branch of diagonal i
EndsDiagonal(k, i) ==
  /\ ~IsUnindexed(log[k].item)
  /\ log[k].outcome \in {"complete", "pruned"}
  /\ IsPrefix(log[k].newPartial, Diagonal(i))

\* C13: the first complete plan passed to the observer takes slot 0 of every
\* choice set; every complete plan built from an indexed item (so every plan
\* observed before the first unindexed item is popped) is a diagonal; and
\* once an unindexed item has been popped no indexed item is on the stack and
\* the same-index branch of every slot of the first piece has been completed
\* or pruned by an earlier iteration.
C13_DiagonalFirst ==
  /\ onPlanCalls # << >> => onPlanCalls[1].plan = Diagonal(0)
  /\ \A k \in 1..Len(log) :
        (~IsUnindexed(log[k].item) /\ log[k].outcome = "complete") =>
           /\ \E i \in 0..(MaxChoices - 1) : log[k].newPartial = Diagonal(i)
           /\ onPlanCalls[log[k].calls + 1].plan = log[k].newPartial
  /\ \A k \in ScanIterations :
        /\ \A j \in 1..Len(stack) : IsUnindexed(stack[j])
        /\ \A i \in 0..(Len(toAdd[1]) - 1) :
              \E l \in 1..(k - 1) : EndsDiagonal(l, i)

\* the diagonals of slot 0 and of slot 1 were observed, and a fallback-scan
\* item has been popped after them and led to a third plan
C13_Witness ==
  /\ Len(toAdd) >= 2
  /\ Len(onPlanCalls) >= 3
  /\ onPlanCalls[1].plan = Diagonal(0)
  /\ onPlanCalls[2].plan = Diagonal(1)
  /\ Diagonal(1) # Diagonal(0)
  /\ ScanIterations # {}

\* ------------------------------------------------------------------- C14
\* the number of populated slots of a choice set
Populated(choices) ==
  Cardinality({ j \in 1..Len(choices) : choices[j] # undefined })

\* the number of populated slots across all choice sets of a work item
PopulatedSlots(item) ==
  SumSeq([i \in 1..Len(item.remaining) |-> Populated(heap[item.remaining[i]])])

\* the work items that are or were on the stack
ItemsSoFar ==
  { stack[i] : i \in 1..Len(stack) } \cup { log[k].item : k \in 1..Len(log) }

\* C14 as stated: for every work item ever on the stack, the number of
\* populated slots across all its choice sets plus the number of pieces
\* folded into its plan equals the number of pieces of toAdd.
C14_PopulatedSlotCount ==
  \A item \in ItemsSoFar :
     PopulatedSlots(item) + Len(item.partial) = Len(toAdd)

\* C14 amended: for every work item ever on the stack, the number of its
\* choice sets plus the number of pieces folded into its plan equals the
\* number of pieces of toAdd, and its choice sets stand for the pieces not
\* yet folded: only the first of them can have lost candidates.
C14_ChoiceSetCount ==
  \A item \in ItemsSoFar :
     /\ Len(item.remaining) + Len(item.partial) = Len(toAdd)
     /\ \A i \in 1..Len(item.remaining) :
           /\ Len(heap[item.remaining[i]]) = Len(toAdd[Len(item.partial) + i])
           /\ i > 1 => heap[item.remaining[i]] = toAdd[Len(item.partial) + i]

\* a sibling that has lost a candidate waits below the continuation of a
\* branch with one piece folded, and its populated slots are more than its
\* choice sets
C14_Witness ==
  /\ Len(stack) >= 2
  /\ Len(top.partial) >= 1
  /\ top.remaining # << >>
  /\ \E i \in 1..Len(stack) :
        /\ Populated(heap[stack[i].remaining[1]])
              < Len(heap[stack[i].remaining[1]])
        /\ PopulatedSlots(stack[i]) > Len(stack[i].remaining)

\* ------------------------------------------------------------------- C15
\* the largest number of candidates in any choice set
MaxBranching ==
  IF toAdd = << >> THEN 0
  ELSE CHOOSE n \in { Len(toAdd[i]) : i \in 1..Len(toAdd) } :
         \A i \in 1..Len(toAdd) : Len(toAdd[i]) <= n

\* the size of the cartesian product of the first k choice sets
RECURSIVE ProductSize(_)
ProductSize(k) == IF k = 0 THEN 1 ELSE ProductSize(k - 1) * Len(toAdd[k])

\* C15 as stated: for every choice list whose choice sets all have a
\* candidate and every monotonic cost function, the stack never holds more
\* than (number of pieces) x (largest number of candidates) work items.
C15_PiecesTimesBranching ==
  (NonEmptySets /\ Monotonic) => Len(stack) <= Len(toAdd) * MaxBranching

\* C15 amended: for every choice list whose choice sets all have a candidate
\* and every monotonic cost function, the stack never holds more work items
\* than there are complete plans in the cartesian product of the choice sets.
C15_AtMostProduct ==
  (NonEmptySets /\ Monotonic) => Len(stack) <= ProductSize(Len(toAdd))

\* under a monotonic cost function the stack holds more work items than
\* pieces times candidates, all of them fallback-scan items
C15_Witness ==
  /\ Monotonic
  /\ Len(stack) > Len(toAdd) * MaxBranching
  /\ \A i \in 1..Len(stack) : IsUnindexed(stack[i])
  /\ min # undefined

\* ------------------------------------------------------------------- C16
\* the items of a stack
ItemsOf(stk) == { stk[i] : i \in 1..Len(stk) }

\* another slot of the choice set is populated besides slot `picked`
AnotherPopulated(choices, picked) ==
  \E j \in 1..Len(choices) : j # picked + 1 /\ choices[j] # undefined

\* the sibling the claim describes for a popped item, the slot picked in its
\* current choice set and the reference to the current choice set with that
\* slot cleared
ExpectedSibling(item, current, ref) ==
  [partial |-> item.partial,
   remaining |-> <<ref>> \o Tail(item.remaining),
   isRoot |-> item.isRoot,
   index |-> IF item.isRoot /\ item.index # undefined
                 /\ Get(item.index) < Len(current) - 1
             THEN Some(Get(item.index) + 1)
             ELSE undefined]

\* the continuation the claim describes for a popped item and the plan
\* combined with the extracted candidate
ExpectedContinuation(item, plan) ==
  [partial |-> plan, remaining |-> Tail(item.remaining),
   isRoot |-> FALSE, index |-> item.index]

\* C16: an iteration that extracts a candidate queues a sibling exactly when
\* another slot of the current choice set is still populated, and a
\* continuation exactly when the branch is neither complete nor pruned; the
\* sibling has the plan of the popped item, a new choice set equal to the
\* current one with only the picked slot cleared followed by the unchanged
\* rest, the same diagonal-phase flag, and index + 1 if the popped item is in
\* the diagonal phase with index < length - 1, no index otherwise; the
\* continuation has the flag false and the index of the popped item.
C16_SiblingAndContinuation ==
  [][ log' # log =>
        LET item == stack[Len(stack)]
            current == heap[item.remaining[1]]
            entry == log'[Len(log')]
            ref == Len(heap) + 1
            queued == ItemsOf(stack') \ ItemsOf(SubSeq(stack, 1, Len(stack) - 1))
        IN  /\ queued =
                  (IF AnotherPopulated(current, entry.picked)
                   THEN {ExpectedSibling(item, current, ref)} ELSE {})
                  \cup
                  (IF entry.outcome = "continued"
                   THEN {ExpectedContinuation(item, entry.newPartial)}
                   ELSE {})
            /\ Len(stack') = Len(stack) - 1 + Cardinality(queued)
            /\ heap'[ref] = [current EXCEPT ![entry.picked + 1] = undefined]
            /\ entry.newPartial = Append(item.partial, Get(current[entry.picked + 1]))
    ]_vars

\* a root item with index 0 was popped from a choice set of three slots: its
\* sibling with index 1 and its continuation with index 0 are on the stack
C16_Witness ==
  /\ Len(log) = 1
  /\ Len(stack) = 2
  /\ Len(toAdd[1]) = 3
  /\ stack[1].isRoot /\ stack[1].index = Some(1)
  /\ ~stack[2].isRoot /\ stack[2].index = Some(0)

\* ------------------------------------------------------------------- C17
\* the slot a call of extract names is populated
SlotPopulated(c) ==
  c.index < Len(c.choices) /\ c.choices[c.index + 1] # undefined

\* C17: extract(index, choices) on a populated slot returns the candidate at
\* index, a choice set of the same length that is empty at index and equal
\* to choices at every other position, and isLast = true exactly when every
\* slot other than index was empty before the call; on an empty slot it
\* raises an assertion error and returns nothing. choices is left as it was.
C17_ExtractContract ==
  (call # undefined /\ pc # "extract") =>
    LET c == Get(call)
    IN  /\ SlotPopulated(c) <=> pc = "returned"
        /\ ~SlotPopulated(c) <=> pc = "assertFailed"
        /\ pc = "assertFailed" =>
              /\ c.returned = undefined
              /\ error = "Index of choices is undefined"
        /\ pc = "returned" =>
              /\ c.returned # undefined
              /\ Get(c.returned).extracted = Get(c.choices[c.index + 1])
              /\ Len(Get(c.returned).updatedChoices) = Len(c.choices)
              /\ \A i \in 1..Len(c.choices) :
                    Get(c.returned).updatedChoices[i] =
                      IF i = c.index + 1 THEN undefined ELSE c.choices[i]
              /\ Get(c.returned).isLast <=>
                    \A i \in 1..Len(c.choices) :
                       i # c.index + 1 => c.choices[i] = undefined

\* extract returned from a choice set of three slots, one of the two others
\* populated and one empty, and reported that alternatives remain
C17_Witness ==
  /\ call # undefined
  /\ pc = "returned"
  /\ Len(Get(call).choices) = 3
  /\ Get(call).index = 1
  /\ Get(call).choices[1] = undefined
  /\ Get(call).choices[3] # undefined
  /\ ~Get(Get(call).returned).isLast

\* ------------------------------------------------------------------- C18
\* C18: no step modifies a choice set that already exists: every step leaves
\* each existing choice set with the slots it had, an extraction only adds
\* the new choice set it returns, and the choice sets of the caller's toAdd
\* stay as they were passed, whichever work items refer to them.
C18_ChoiceSetsImmutable ==
  [][ /\ Len(heap') >= Len(heap)
      /\ \A ref \in 1..Len(heap) : heap'[ref] = heap[ref]
      /\ toAdd' = toAdd
      /\ \A i \in 1..Len(toAdd) : heap'[i] = toAdd[i]
      /\ log' # log =>
            /\ Len(heap') = Len(heap) + 1
            /\ heap'[Len(heap')] # heap[stack[Len(stack)].remaining[1]]
    ]_vars

\* two branches have extracted a candidate from the same choice set of toAdd,
\* which a work item on the stack still refers to
C18_Witness ==
  /\ \E k \in 1..Len(log) : \E l \in (k + 1)..Len(log) :
        /\ log[k].item.remaining[1] = log[l].item.remaining[1]
        /\ log[k].item.partial # log[l].item.partial
        /\ \E i \in 1..Len(stack) : \E j \in 1..Len(stack[i].remaining) :
              stack[i].remaining[j] = log[k].item.remaining[1]
  /\ Len(heap) > Len(toAdd)

\* ------------------------------------------------------------------- C19
\* the preferred index of a work item, when in range for the item's first
\* choice set, names a populated slot, and that set has a populated slot
HeadWellFormed(item) ==
  LET head == heap[item.remaining[1]]
  IN  /\ (item.index # undefined /\ Get(item.index) < Len(head)) =>
             head[Get(item.index) + 1] # undefined
      /\ \E j \in 1..Len(head) : head[j] # undefined

\* C19: for every choice list of at least one piece whose choice sets are
\* all non-empty (and fully populated, as every toAdd is), no assertion is
\* raised and no error thrown during the search: every work item on the
\* stack has a first choice set with a populated slot, and a preferred index
\* that, when in range for that set, names a populated slot.
C19_NoAssertion ==
  (Len(toAdd) >= 1 /\ NonEmptySets) =>
     /\ pc \in {"loop", "done"}
     /\ error = ""
     /\ \A i \in 1..Len(stack) :
           stack[i].remaining # << >> /\ HeadWellFormed(stack[i])

\* a search has returned after a root sibling with an incremented index was
\* popped and its continuation carried that index to a later piece whose
\* choice set is too short for it
C19_Witness ==
  /\ pc = "done"
  /\ NonEmptySets
  /\ \E k \in 1..Len(log) :
        /\ log[k].item.isRoot
        /\ log[k].item.index = Some(1)
  /\ \E k \in 1..Len(log) :
        /\ log[k].item.partial # << >>
        /\ log[k].item.index # undefined
        /\ Get(log[k].item.index)
              >= Len(toAdd[Len(log[k].item.partial) + 1])

\* ------------------------------------------------------------------- C20
\* the plans passed to the observer so far
Observed == { onPlanCalls[n].plan : n \in 1..Len(onPlanCalls) }

\* the partial plans discarded by the pruning cut so far
Discarded ==
  { log[k].newPartial : k \in { l \in 1..Len(log) : log[l].outcome = "pruned" } }

\* every observed plan picks one candidate of each piece in the order of
\* toAdd, no plan is observed twice, and once the run is over every
\* combination that was not observed extends a discarded partial plan
ObservedOnceOrPruned ==
  /\ Observed \subseteq CompletePlans
  /\ \A n \in 1..Len(onPlanCalls) : \A m \in (n + 1)..Len(onPlanCalls) :
        onPlanCalls[n].plan # onPlanCalls[m].plan
  /\ pc # "loop" =>
        \A q \in CompletePlans \ Observed :
           \E p \in Discarded : IsPrefix(p, q)

\* C20 as stated: in every run, every plan passed to the observer is one
\* candidate of each piece in choice-list order, no combination is observed
\* twice, and every combination never observed extends a partial plan
\* discarded by the cut.
C20_AnyRun == ObservedOnceOrPruned

\* C20 amended: the same, in every run on a choice list of at least one
\* piece.
C20_ObservedOnceOrPruned == Len(toAdd) >= 1 => ObservedOnceOrPruned

\* a search over several pieces has returned after observing several plans
\* and discarding a partial plan, so that some combination was never observed
C20_Witness ==
  /\ pc = "done"
  /\ Len(toAdd) >= 2
  /\ Len(onPlanCalls) >= 2
  /\ Discarded # {}
  /\ CompletePlans \ Observed # {}

====
